---- MODULE Spec2Model ----
(***************************************************************************)
(* Model of the bindiff delta codec (package core, cmd/apply):             *)
(* the positional byte differ and its three strategies, the applier, the   *)
(* patch container codec and the apply command pipeline.                   *)
(*                                                                         *)
(* Byte sequences are TLA+ sequences of integers 0..255.  Go's 0-based     *)
(* half-open slice s[lo:hi] is Slice(s, lo, hi).                           *)
(***************************************************************************)
EXTENDS Integers, Sequences, FiniteSets, TLC

VARIABLES
    pc,          \* position in the pipeline being run
    oldData,     \* OLD buffer
    newData,     \* NEW buffer (diff side) / replay output (apply side)
    cfg,         \* config.Config fields read by the core
    patches,     \* operation list returned by the differ
    container,   \* types.DiffFile handed to EncodeDiffFile
    patchBytes,  \* serialized patch container
    decoded,     \* (types.DiffFile, error) returned by DecodeDiffFile
    result,      \* bytes returned by ApplyPatchWithOptions
    opts,        \* cmd.ApplyOptions of the apply command
    outFile,     \* file written by SafeWrite, or NoFile
    err          \* error returned by the command, or "nil"

vars == <<pc, oldData, newData, cfg, patches, container, patchBytes,
          decoded, result, opts, outFile, err>>

-----------------------------------------------------------------------------
(* Bounds of the model *)

\* longest OLD / NEW buffer explored by the diff pipeline
MaxLen == 3

\* bytes in one "megabyte" of MaxMemoryMB (the code's 1024*1024, scaled down
\* so that both the whole-buffer and the streaming path are taken)
BytesPerMB == 4

\* the fallback streaming window (the code's 64*1024, scaled down)
DefaultChunk == 2

\* byte values the input buffers are drawn from ("a", "b")
Alphabet == {97, 98}

-----------------------------------------------------------------------------
(* Sequence helpers *)

\* Go slice s[lo:hi], 0-based, half-open; callers stay within 0 <= lo <= hi <= len
Slice(s, lo, hi) == SubSeq(s, lo + 1, hi)

Min(a, b) == IF a < b THEN a ELSE b

\* all sequences over S of length at most n
SeqsUpTo(S, n) == UNION {[1..k -> S] : k \in 0..n}

Zeros(n) == [i \in 1..n |-> 0]

-----------------------------------------------------------------------------
(* types.go: operator tags and the patch record *)

OP_COPY    == 1
OP_INSERT  == 2
OP_REPLACE == 3
OP_MATCH   == 4
OP_DELETE  == 5

PATCH_MAGIC   == 1111770694    \* 0x42444646
PATCH_VERSION == 1

Patch(op, offset, length, data) ==
    [Op |-> op, Offset |-> offset, Length |-> length, Data |-> data]

-----------------------------------------------------------------------------
(* sequentialDiff: the positional two-cursor scan *)

\* RunEnd stopping after one byte: runs are never extended
RunEndOneByte(old, new, i, minLen, eq) == i + 1

\* the inner for loops: first index j >= i with j = minLen or the equality of
\* old[j], new[j] different from eq
RECURSIVE RunEnd(_, _, _, _, _)
RunEnd(old, new, i, minLen, eq) ==
    IF i < minLen /\ ((old[i + 1] = new[i + 1]) = eq)
    THEN RunEnd(old, new, i + 1, minLen, eq)
    ELSE i

\* the outer loop "for i < minLen" from position i, uncancelled
RECURSIVE ScanRuns(_, _, _, _)
ScanRuns(old, new, i, minLen) ==
    IF i >= minLen THEN <<>>
    ELSE LET eq == (old[i + 1] = new[i + 1])
             j  == RunEnd(old, new, i, minLen, eq)
             p  == IF eq THEN Patch(OP_COPY, i, j - i, <<>>)
                         ELSE Patch(OP_REPLACE, i, j - i, Slice(new, i, j))
         IN <<p>> \o ScanRuns(old, new, j, minLen)

\* DiffTail without the DELETE branch: a shorter NEW leaves no tail operation
DiffTailNoDelete(old, new, minLen) ==
    IF Len(new) > minLen
    THEN <<Patch(OP_INSERT, minLen, Len(new) - minLen, Slice(new, minLen, Len(new)))>>
    ELSE <<>>

\* the tail INSERT / DELETE
DiffTail(old, new, minLen) ==
    IF Len(new) > minLen
    THEN <<Patch(OP_INSERT, minLen, Len(new) - minLen, Slice(new, minLen, Len(new)))>>
    ELSE IF Len(old) > minLen
    THEN <<Patch(OP_DELETE, minLen, Len(old) - minLen, <<>>)>>
    ELSE <<>>

sequentialDiff(old, new) ==
    LET minLen == Min(Len(old), Len(new))
    IN ScanRuns(old, new, 0, minLen) \o DiffTail(old, new, minLen)

-----------------------------------------------------------------------------
(* optimizePatches (the streaming differ's private optimizer) *)

canMergePatches(p1, p2) ==
    /\ p1.Op = p2.Op
    /\ p1.Op = OP_INSERT
    /\ p1.Offset + p1.Length = p2.Offset

mergePatches(p1, p2) ==
    [p1 EXCEPT !.Length = p1.Length + p2.Length, !.Data = p1.Data \o p2.Data]

\* the loop body folded over patches[i..]; acc is "optimized"
RECURSIVE optimizeLoop(_, _, _)
optimizeLoop(ps, i, acc) ==
    IF i > Len(ps) THEN acc
    ELSE IF i = 1 THEN optimizeLoop(ps, 2, <<ps[1]>>)
    ELSE LET last == acc[Len(acc)]
         IN IF canMergePatches(last, ps[i])
            THEN optimizeLoop(ps, i + 1,
                     [acc EXCEPT ![Len(acc)] = mergePatches(last, ps[i])])
            ELSE optimizeLoop(ps, i + 1, Append(acc, ps[i]))

optimizePatches(ps) ==
    IF Len(ps) <= 1 THEN ps ELSE optimizeLoop(ps, 1, <<>>)

-----------------------------------------------------------------------------
(* The three strategies and their dispatcher *)

ShiftOffsets(ps, by) == [k \in 1..Len(ps) |-> [ps[k] EXCEPT !.Offset = @ + by]]

streamChunkSize(c) ==
    LET chunkSize == (c.MaxMemoryMB * BytesPerMB) \div 4
    IN IF chunkSize <= 0 THEN DefaultChunk ELSE chunkSize

\* the window loop "for offset := 0; offset < len(newData); offset += chunkSize"
RECURSIVE streamWindows(_, _, _, _)
streamWindows(old, new, offset, chunkSize) ==
    IF offset >= Len(new) THEN <<>>
    ELSE LET end == Min(offset + chunkSize, Len(new))
             chunkPatches == sequentialDiff(old, Slice(new, offset, end))
         IN ShiftOffsets(chunkPatches, offset)
                \o streamWindows(old, new, offset + chunkSize, chunkSize)

\* parallelDiff really splitting NEW among the workers, each worker scanning
\* its piece against OLD on its own
parallelDiffSplit(old, new, c) ==
    IF c.MaxWorkers <= 1 THEN sequentialDiff(old, new)
    ELSE IF Len(new) \div c.MaxWorkers < c.BlockSize THEN sequentialDiff(old, new)
    ELSE streamWindows(old, new, 0,
             IF Len(new) \div c.MaxWorkers > 0 THEN Len(new) \div c.MaxWorkers ELSE 1)

parallelDiff(old, new, c) ==
    IF c.MaxWorkers <= 1 THEN sequentialDiff(old, new)
    ELSE IF Len(new) \div c.MaxWorkers < c.BlockSize THEN sequentialDiff(old, new)
    ELSE sequentialDiff(old, new)

streamingDiff(old, new, c) ==
    optimizePatches(streamWindows(old, new, 0, streamChunkSize(c)))

\* the memory guard of DiffWithOptions: totalSize > maxMemory
ExceedsMemory(old, new, c) == Len(old) + Len(new) > c.MaxMemoryMB * BytesPerMB

\* the two tests with the parallel test made first
selectStrategyParallelFirst(old, new, c) ==
    IF c.UseParallel /\ Len(old) > c.BlockSize * 10 THEN "parallel"
    ELSE IF ExceedsMemory(old, new, c) THEN "streaming"
    ELSE "sequential"

\* the function DiffWithOptions hands the buffers to
selectStrategy(old, new, c) ==
    IF ExceedsMemory(old, new, c) THEN "streaming"
    ELSE IF c.UseParallel /\ Len(old) > c.BlockSize * 10 THEN "parallel"
    ELSE "sequential"

DiffWithOptions(old, new, c) ==
    CASE selectStrategy(old, new, c) = "streaming" -> streamingDiff(old, new, c)
      [] selectStrategy(old, new, c) = "parallel"  -> parallelDiff(old, new, c)
      [] OTHER -> sequentialDiff(old, new)

-----------------------------------------------------------------------------
(* ApplyPatchWithOptions: replay of an operation list against OLD *)

\* "estimatedSize": the capacity of the output buffer
RECURSIVE estimatedSize(_)
estimatedSize(ps) ==
    IF ps = <<>> THEN 0
    ELSE (IF ps[1].Op \in {OP_INSERT, OP_REPLACE, OP_COPY, OP_MATCH}
          THEN ps[1].Length ELSE 0) + estimatedSize(Tail(ps))

ApplyResult(data, cursor, status) == [data |-> data, cursor |-> cursor, status |-> status]

\* One operation applied at (cursor, out), after the offset check and the gap
\* copy.  A slice expression with a negative low bound faults.
applyOp(old, p, cursor, out) ==
    LET off == p.Offset
        gap == off > cursor
        c1  == IF gap THEN off ELSE cursor
        o1  == IF gap THEN out \o Slice(old, cursor, off) ELSE out
    IN IF gap /\ cursor < 0 THEN ApplyResult(out, cursor, "panic")
       ELSE CASE p.Op = OP_INSERT  -> ApplyResult(o1 \o p.Data, c1, "ok")
              [] p.Op = OP_REPLACE -> ApplyResult(o1 \o p.Data, c1 + p.Length, "ok")
              [] p.Op = OP_DELETE  -> ApplyResult(o1, c1 + p.Length, "ok")
              [] p.Op \in {OP_COPY, OP_MATCH} ->
                    LET endPos == Min(c1 + p.Length, Len(old))
                    IN IF c1 < Len(old) /\ endPos > c1
                       THEN IF c1 < 0 THEN ApplyResult(o1, c1, "panic")
                            ELSE ApplyResult(o1 \o Slice(old, c1, endPos), endPos, "ok")
                       ELSE ApplyResult(o1, c1, "ok")
              [] OTHER -> ApplyResult(o1, c1, "ok")

\* The replay loop from patches[i]; the context is seen done at the poll of
\* iteration cancelAt (cancelAt > Len(ps): never while the loop runs).
RECURSIVE applyLoop(_, _, _, _, _, _)
applyLoop(old, ps, i, cursor, out, cancelAt) ==
    IF i > Len(ps)
    THEN IF cursor < Len(old)
         THEN IF cursor < 0 THEN ApplyResult(out, cursor, "panic")
              ELSE ApplyResult(out \o Slice(old, cursor, Len(old)), cursor, "ok")
         ELSE ApplyResult(out, cursor, "ok")
    ELSE IF i >= cancelAt THEN ApplyResult(out, cursor, "cancelled")
    ELSE IF ps[i].Offset > Len(old)
         THEN applyLoop(old, ps, i + 1, cursor, out, cancelAt)
    ELSE LET r == applyOp(old, ps[i], cursor, out)
         IN IF r.status = "panic" THEN r
            ELSE applyLoop(old, ps, i + 1, r.cursor, r.data, cancelAt)

\* the largest capacity "make([]byte, 0, estimatedSize)" can be given (the
\* runtime's allocation limit, scaled to the model's buffers)
MaxAlloc == 64

ApplyPatchWithOptions(old, ps, cancelAt) ==
    IF estimatedSize(ps) < 0 \/ estimatedSize(ps) > MaxAlloc
    THEN ApplyResult(<<>>, 0, "panic")
    ELSE applyLoop(old, ps, 1, 0, <<>>, cancelAt)

\* context.Background(): never cancelled
ApplyPatch(old, ps) == ApplyPatchWithOptions(old, ps, Len(ps) + 1)

-----------------------------------------------------------------------------
(* encoding/binary, little-endian, and the bytes.Reader the decoder reads from *)

\* binary.Write of an n-byte integer: two's complement, least significant first
RECURSIVE LEBytes(_, _)
LEBytes(v, n) ==
    IF n = 0 THEN <<>> ELSE <<v % 256>> \o LEBytes(v \div 256, n - 1)

\* the unsigned value of little-endian bytes (uint32 fields)
RECURSIVE LEUnsigned(_)
LEUnsigned(bs) ==
    IF bs = <<>> THEN 0 ELSE bs[1] + 256 * LEUnsigned(Tail(bs))

\* the two's complement value of little-endian bytes (int32, int64 fields)
RECURSIVE LESigned(_)
LESigned(bs) ==
    IF Len(bs) = 1 THEN (IF bs[1] >= 128 THEN bs[1] - 256 ELSE bs[1])
    ELSE bs[1] + 256 * LESigned(Tail(bs))

\* binary.Read(r, LittleEndian, &v) of n bytes at position pos of data: the
\* field is set only when all n bytes are there; a short read consumes what is
\* left, leaves the field at zero and reports EOF / unexpected EOF.
binaryRead(data, pos, n, signed) ==
    IF pos + n <= Len(data)
    THEN [val |-> IF signed THEN LESigned(Slice(data, pos, pos + n))
                            ELSE LEUnsigned(Slice(data, pos, pos + n)),
          pos |-> pos + n, err |-> "nil"]
    ELSE [val |-> 0, pos |-> Len(data),
          err |-> IF pos >= Len(data) THEN "EOF" ELSE "unexpected EOF"]

\* io.ReadFull(r, buf) into a fresh zeroed buf of n bytes: the bytes that are
\* there are copied, the rest of buf stays zero.
readFull(data, pos, n) ==
    LET avail == Min(n, Len(data) - pos)
    IN [val |-> Slice(data, pos, pos + avail) \o Zeros(n - avail),
        pos |-> pos + avail,
        err |-> IF avail = n THEN "nil"
                ELSE IF avail = 0 THEN "EOF" ELSE "unexpected EOF"]

-----------------------------------------------------------------------------
(* EncodePatch / DecodePatch: the operation stream *)

\* EncodeOne writing Length before Offset
EncodeOneSwapped(entry) ==
    <<entry.Op>> \o LEBytes(entry.Length, 8) \o LEBytes(entry.Offset, 8)
        \o (IF entry.Op \in {OP_INSERT, OP_REPLACE} THEN entry.Data ELSE <<>>)

EncodeOne(entry) ==
    <<entry.Op>> \o LEBytes(entry.Offset, 8) \o LEBytes(entry.Length, 8)
        \o (IF entry.Op \in {OP_INSERT, OP_REPLACE} THEN entry.Data ELSE <<>>)

RECURSIVE EncodePatch(_)
EncodePatch(p) ==
    IF p = <<>> THEN <<>> ELSE EncodeOne(p[1]) \o EncodePatch(Tail(p))

PatchResult(p, e) == [patch |-> p, err |-> e]

\* the loop "for r.Len() > 0" from position pos, p the list decoded so far.
\* make([]byte, length) with a negative length faults.
RECURSIVE decodeLoop(_, _, _)
decodeLoop(b, pos, p) ==
    IF pos >= Len(b) THEN PatchResult(p, "nil")
    ELSE LET op     == b[pos + 1]
             offset == binaryRead(b, pos + 1, 8, TRUE)
             length == binaryRead(b, offset.pos, 8, TRUE)
             hasData == op \in {OP_INSERT, OP_REPLACE}
             data   == IF hasData /\ length.err = "nil" /\ length.val >= 0
                       THEN readFull(b, length.pos, length.val)
                       ELSE [val |-> <<>>, pos |-> length.pos, err |-> "nil"]
         IN IF offset.err # "nil" THEN PatchResult(p, offset.err)
            ELSE IF length.err # "nil" THEN PatchResult(p, length.err)
            ELSE IF hasData /\ length.val < 0 THEN PatchResult(p, "panic")
            ELSE IF data.err # "nil" THEN PatchResult(p, data.err)
            ELSE decodeLoop(b, data.pos,
                     Append(p, Patch(op, offset.val, length.val, data.val)))

DecodePatch(b) == decodeLoop(b, 0, <<>>)

-----------------------------------------------------------------------------
(* EncodeDiffFile / DecodeDiffFile: the patch container *)

HashLen == 32

DiffFile(magic, version, oldNameLen, oldName, newNameLen, newName, oldSize, newSize, oldHash, newHash, offset, dataLength, diff) ==
    [MagicNumber |-> magic, Version |-> version,
     OldFileNameLength |-> oldNameLen, FileName |-> oldName,
     NewFileNameLength |-> newNameLen, NewFileName |-> newName,
     OldSize |-> oldSize, NewSize |-> newSize,
     OldHash |-> oldHash, NewHash |-> newHash,
     Offset |-> offset, DataLength |-> dataLength, Diff |-> diff]

EncodeDiffFile(df) ==
    LET diffBytes == EncodePatch(df.Diff)
    IN LEBytes(df.MagicNumber, 4) \o LEBytes(df.Version, 4)
         \o LEBytes(df.OldFileNameLength, 4) \o df.FileName
         \o LEBytes(df.NewFileNameLength, 4) \o df.NewFileName
         \o LEBytes(df.OldSize, 4) \o LEBytes(df.NewSize, 4)
         \o df.OldHash \o df.NewHash
         \o LEBytes(df.Offset, 4)
         \o LEBytes(Len(diffBytes), 4) \o diffBytes

\* Every header read ignores its error; only DecodePatch's error is returned,
\* and df.Diff is set only when there is none.
DecodeDiffFile(data) ==
    LET magic      == binaryRead(data, 0, 4, FALSE)
        version    == binaryRead(data, magic.pos, 4, FALSE)
        oldNameLen == binaryRead(data, version.pos, 4, FALSE)
        oldName    == readFull(data, oldNameLen.pos, oldNameLen.val)
        newNameLen == binaryRead(data, oldName.pos, 4, FALSE)
        newName    == readFull(data, newNameLen.pos, newNameLen.val)
        oldSize    == binaryRead(data, newName.pos, 4, FALSE)
        newSize    == binaryRead(data, oldSize.pos, 4, FALSE)
        oldHash    == readFull(data, newSize.pos, HashLen)
        newHash    == readFull(data, oldHash.pos, HashLen)
        offset     == binaryRead(data, newHash.pos, 4, TRUE)
        dataLength == binaryRead(data, offset.pos, 4, FALSE)
        diffData   == readFull(data, dataLength.pos, dataLength.val)
        patch      == DecodePatch(diffData.val)
    IN [df |-> DiffFile(magic.val, version.val, oldNameLen.val, oldName.val,
                        newNameLen.val, newName.val, oldSize.val, newSize.val,
                        oldHash.val, newHash.val, offset.val, dataLength.val,
                        IF patch.err = "nil" THEN patch.patch ELSE <<>>),
        err |-> patch.err]

-----------------------------------------------------------------------------
(* utils.ComputeHash / utils.CompareHashes *)

RECURSIVE ByteSum(_)
ByteSum(data) == IF data = <<>> THEN 0 ELSE data[1] + ByteSum(Tail(data))

RECURSIVE WeightedSum(_, _)
WeightedSum(data, k) ==
    IF data = <<>> THEN 0 ELSE k * data[1] + WeightedSum(Tail(data), k + 1)

\* sha256.Sum256 abstracted to a 32-byte digest that is a function of the data
\* (length, byte sum, position-weighted byte sum, zero padding).  The gates
\* only compare digests for equality.
ComputeHash(data) ==
    <<Len(data) % 256, ByteSum(data) % 256, WeightedSum(data, 1) % 256>>
        \o Zeros(HashLen - 3)

CompareHashes(hash1, hash2) ==
    /\ Len(hash1) = Len(hash2)
    /\ \A i \in 1..Len(hash1) : hash1[i] = hash2[i]

-----------------------------------------------------------------------------
(* Values of the variables a pipeline has not produced yet *)

NoFile      == <<"none">>
NoContainer == [none |-> TRUE]
NoDecoded   == [none |-> TRUE]
NoResult    == [none |-> TRUE]
NoOpts      == [none |-> TRUE]
NoConfig    == [none |-> TRUE]

-----------------------------------------------------------------------------
(* The library pipeline: diff, encode, decode, apply                         *)
(* (TestBasicDiff and the end-to-end scenario: Diff, EncodeDiffFile,         *)
(* DecodeDiffFile, ApplyPatch on one pair of buffers under one config)       *)

Inputs == SeqsUpTo(Alphabet, MaxLen)

\* the config.Config fields the differ reads; callers build the record
\* themselves, so every field may hold its zero value
Configs == [MaxMemoryMB : {0, 1, 2}, UseParallel : BOOLEAN,
            MaxWorkers : {1, 2}, BlockSize : {0, 1}]

\* the types.DiffFile literal built by runDiff (DataLength is left unset)
buildDiffFile(oldName, newName, old, new, offset, ps) ==
    DiffFile(PATCH_MAGIC, PATCH_VERSION, Len(oldName), oldName, Len(newName),
             newName, Len(old), Len(new), ComputeHash(old), ComputeHash(new),
             offset, 0, ps)

OldName == <<111>>         \* "o"
NewName == <<110, 50>>     \* "n2"

Init ==
    /\ pc = "start"
    /\ oldData \in Inputs
    /\ newData \in Inputs
    /\ cfg \in Configs
    /\ patches = <<>>
    /\ container = NoContainer
    /\ patchBytes = <<>>
    /\ decoded = NoDecoded
    /\ result = NoResult
    /\ opts = NoOpts
    /\ outFile = NoFile
    /\ err = "nil"

Diff ==
    /\ pc = "start"
    /\ patches' = DiffWithOptions(oldData, newData, cfg)
    /\ pc' = "diffed"
    /\ UNCHANGED <<oldData, newData, cfg, container, patchBytes, decoded,
                   result, opts, outFile, err>>

Encode ==
    /\ pc = "diffed"
    /\ container' = buildDiffFile(OldName, NewName, oldData, newData, 0, patches)
    /\ patchBytes' = EncodeDiffFile(container')
    /\ pc' = "encoded"
    /\ UNCHANGED <<oldData, newData, cfg, patches, decoded, result, opts,
                   outFile, err>>

Decode ==
    /\ pc = "encoded"
    /\ decoded' = DecodeDiffFile(patchBytes)
    /\ pc' = "decoded"
    /\ UNCHANGED <<oldData, newData, cfg, patches, container, patchBytes,
                   result, opts, outFile, err>>

Apply ==
    /\ pc = "decoded"
    /\ decoded.err = "nil"
    /\ result' = ApplyPatch(oldData, decoded.df.Diff)
    /\ pc' = "applied"
    /\ UNCHANGED <<oldData, newData, cfg, patches, container, patchBytes,
                   decoded, opts, outFile, err>>

Next == Diff \/ Encode \/ Decode \/ Apply

Spec == Init /\ [][Next]_vars

WholeBuffer == ~ExceedsMemory(oldData, newData, cfg)

-----------------------------------------------------------------------------
(* C1: on the whole-buffer path, decoding the encoded patch of diff(A, B)    *)
(* succeeds and replaying the decoded operations against A yields exactly B. *)
RoundTripWholeBuffer ==
    WholeBuffer =>
        /\ pc \in {"decoded", "applied"} => decoded.err = "nil"
        /\ pc = "applied" => result.status = "ok" /\ result.data = newData

RoundTripWholeBufferWitness ==
    /\ pc = "applied"
    /\ WholeBuffer
    /\ Len(decoded.df.Diff) >= 2
    /\ Len(oldData) > Len(newData)
    /\ result.data = newData

-----------------------------------------------------------------------------
(* C2: the streaming strategy returns a valid list: replaying it against OLD *)
(* yields NEW.  The code does not satisfy this (each window is compared      *)
(* with the start of OLD, and each window gets its own tail operation).      *)
StreamingRoundTrip ==
    (pc # "start" /\ ~WholeBuffer /\ Len(newData) >= 1) =>
        ApplyPatch(oldData, patches).data = newData

-----------------------------------------------------------------------------
(* C3: on the whole-buffer path the returned list depends on (OLD, NEW)      *)
(* only: a run under any other whole-buffer configuration (use_parallel,     *)
(* workers, block_size; min_match_length and enable_fft are never read by    *)
(* the differ) returns the same list, which is the sequential strategy's.    *)
DeterministicWholeBuffer ==
    (pc # "start" /\ WholeBuffer) =>
        /\ patches = sequentialDiff(oldData, newData)
        /\ \A c \in Configs :
              ~ExceedsMemory(oldData, newData, c) =>
                  DiffWithOptions(oldData, newData, c) = patches

\* the run took the parallel strategy past its two early returns
DeterministicWholeBufferWitness ==
    /\ pc = "diffed"
    /\ WholeBuffer
    /\ cfg.UseParallel
    /\ Len(oldData) > cfg.BlockSize * 10
    /\ cfg.MaxWorkers > 1
    /\ Len(newData) \div cfg.MaxWorkers >= cfg.BlockSize
    /\ Len(patches) >= 2

-----------------------------------------------------------------------------
(* C4: diff(A, A) is one COPY(0, |A|), or the empty list when A is empty.    *)
(* The code does not satisfy this once |A| + |A| exceeds the memory limit.   *)
IdentityDiff ==
    (pc # "start" /\ oldData = newData) =>
        patches = IF Len(oldData) > 0
                  THEN <<Patch(OP_COPY, 0, Len(oldData), <<>>)>>
                  ELSE <<>>

-----------------------------------------------------------------------------
(* C5: whole-buffer, the list is exactly the maximal runs of [0, m) in       *)
(* position order (COPY where OLD[i] = NEW[i], REPLACE with NEW's bytes      *)
(* where they differ) followed by the tail INSERT or DELETE, nothing else.   *)

\* ps is the run decomposition of (old, new), stated position by position
IsReferenceDiff(ps, old, new) ==
    LET m       == Min(Len(old), Len(new))
        n       == Len(ps)
        hasTail == Len(old) # Len(new)
        nb      == IF hasTail THEN n - 1 ELSE n
    IN /\ nb >= 0
       /\ hasTail =>
            ps[n] = IF Len(new) > Len(old)
                    THEN Patch(OP_INSERT, m, Len(new) - m, Slice(new, m, Len(new)))
                    ELSE Patch(OP_DELETE, m, Len(old) - m, <<>>)
       /\ \A k \in 1..nb :
            /\ ps[k].Op \in {OP_COPY, OP_REPLACE}
            /\ ps[k].Length >= 1
            /\ ps[k].Offset = IF k = 1 THEN 0 ELSE ps[k-1].Offset + ps[k-1].Length
            /\ ps[k].Offset + ps[k].Length <= m
            /\ \A i \in (ps[k].Offset + 1)..(ps[k].Offset + ps[k].Length) :
                  (old[i] = new[i]) <=> (ps[k].Op = OP_COPY)
            /\ ps[k].Data = IF ps[k].Op = OP_COPY THEN <<>>
                            ELSE Slice(new, ps[k].Offset, ps[k].Offset + ps[k].Length)
            /\ k < nb => ps[k+1].Op # ps[k].Op
       /\ IF nb = 0 THEN m = 0 ELSE ps[nb].Offset + ps[nb].Length = m

-----------------------------------------------------------------------------
(* The codec on its own: a container is encoded, the stream possibly cut     *)
(* short, and decoded                                                        *)

\* longest operation list of an encoded container
MaxOps == 2

\* operations of every kind, one unknown tag, one- and two-byte field values
CodecOps ==
    { Patch(OP_COPY, 0, 2, <<>>),
      Patch(OP_INSERT, 2, 2, <<97, 98>>),
      Patch(OP_INSERT, 0, 0, <<>>),
      Patch(OP_REPLACE, 300, 1, <<98>>),
      Patch(OP_MATCH, 0, 1, <<>>),
      Patch(OP_DELETE, 1, 1, <<>>),
      Patch(0, 0, 0, <<>>) }

\* the claim's well-formedness of a container
WellFormedOp(p) ==
    IF p.Op \in {OP_INSERT, OP_REPLACE}
    THEN p.Length >= 0 /\ Len(p.Data) = p.Length
    ELSE p.Data = <<>>

WellFormed(df) ==
    /\ df.OldFileNameLength = Len(df.FileName)
    /\ df.NewFileNameLength = Len(df.NewFileName)
    /\ Len(df.OldHash) = HashLen
    /\ Len(df.NewHash) = HashLen
    /\ df.DataLength = Len(EncodePatch(df.Diff))
    /\ \A k \in 1..Len(df.Diff) : WellFormedOp(df.Diff[k])

\* containers handed to the encoder: right and wrong magic / version, empty
\* and non-empty names, a negative shift, DataLength filled in or left at
\* zero (as runDiff leaves it)
CodecContainers ==
    { DiffFile(mv[1], mv[2], Len(OldName), OldName, Len(nn), nn, 3, 300,
               ComputeHash(<<97>>), ComputeHash(<<98, 97>>), off,
               IF filled THEN Len(EncodePatch(ps)) ELSE 0, ps) :
        mv \in {<<PATCH_MAGIC, PATCH_VERSION>>, <<PATCH_MAGIC + 1, PATCH_VERSION>>,
                <<PATCH_MAGIC, PATCH_VERSION + 1>>},
        nn \in {<<>>, NewName},
        off \in {-1, 1},
        filled \in BOOLEAN,
        ps \in SeqsUpTo(CodecOps, MaxOps) }

InitCodec ==
    /\ pc = "built"
    /\ container \in CodecContainers
    /\ oldData = <<>>
    /\ newData = <<>>
    /\ cfg = NoConfig
    /\ patches = <<>>
    /\ patchBytes = <<>>
    /\ decoded = NoDecoded
    /\ result = NoResult
    /\ opts = NoOpts
    /\ outFile = NoFile
    /\ err = "nil"

CodecEncode ==
    /\ pc = "built"
    /\ patchBytes' = EncodeDiffFile(container)
    /\ pc' = "encoded"
    /\ UNCHANGED <<oldData, newData, cfg, patches, container, decoded, result,
                   opts, outFile, err>>

\* the stream loses its end: any proper prefix may reach the decoder
CodecTruncate ==
    /\ pc = "encoded"
    /\ Len(container.Diff) < MaxOps
    /\ \E k \in 0..(Len(patchBytes) - 1) : patchBytes' = Slice(patchBytes, 0, k)
    /\ pc' = "truncated"
    /\ UNCHANGED <<oldData, newData, cfg, patches, container, decoded, result,
                   opts, outFile, err>>

CodecDecode ==
    /\ pc \in {"encoded", "truncated"}
    /\ decoded' = DecodeDiffFile(patchBytes)
    /\ pc' = IF pc = "encoded" THEN "decoded" ELSE "decodedTruncated"
    /\ UNCHANGED <<oldData, newData, cfg, patches, container, patchBytes,
                   result, opts, outFile, err>>

NextCodec == CodecEncode \/ CodecTruncate \/ CodecDecode

SpecCodec == InitCodec /\ [][NextCodec]_vars

-----------------------------------------------------------------------------
(* C8: a stream whose first u32 is not the magic or whose second u32 is not  *)
(* version 1 is rejected by DecodeDiffFile with an error.  The code does     *)
(* not check either field.                                                   *)
RejectsBadMagicOrVersion ==
    (/\ pc = "decoded"
     /\ \/ LEUnsigned(Slice(patchBytes, 0, 4)) # PATCH_MAGIC
        \/ LEUnsigned(Slice(patchBytes, 4, 8)) # PATCH_VERSION)
    => decoded.err # "nil"

-----------------------------------------------------------------------------
(* C9: for a well-formed container p, DecodeDiffFile(EncodeDiffFile(p))      *)
(* returns no error and a container equal to p in every field and operation. *)
CodecRoundTrip ==
    (pc = "decoded" /\ WellFormed(container)) =>
        /\ decoded.err = "nil"
        /\ decoded.df = container

\* a round trip through a REPLACE with a two-byte offset, a negative shift
\* and a second operation
CodecRoundTripWitness ==
    /\ pc = "decoded"
    /\ WellFormed(container)
    /\ Len(container.Diff) = 2
    /\ \E k \in 1..2 : container.Diff[k].Op = OP_REPLACE
    /\ container.Offset < 0
    /\ decoded.df = container

-----------------------------------------------------------------------------
(* C10: a stream that ends before its declared fields, names or diff_len     *)
(* bytes of operations (the empty stream included) makes DecodeDiffFile      *)
(* return an error.  The code ignores every short read of the header and     *)
(* of the operation bytes.                                                   *)
RejectsTruncated ==
    pc = "decodedTruncated" => decoded.err # "nil"

-----------------------------------------------------------------------------
(* The apply command (runApply): decode, verify OLD hash, replay, verify     *)
(* result hash, write                                                        *)

\* the config.Config literal runDiff hands to the differ: the flags' default
\* values, MaxMemoryMB not set
runDiffConfig ==
    [MaxMemoryMB |-> 0, UseParallel |-> TRUE, MaxWorkers |-> 4, BlockSize |-> 1024]

\* the patch file runDiff writes for (old, new), alignment disabled
runDiffPatch(old, new) ==
    EncodeDiffFile(buildDiffFile(OldName, NewName, old, new, 0,
                                 DiffWithOptions(old, new, runDiffConfig)))

\* bytes missing at the end of the patch file read by runApply: none, or
\* enough to reach the length field of a final one-byte INSERT / REPLACE
TruncateBy == {0, 9}

ApplyOptionSets == [VerifyResult : BOOLEAN, Timeout : BOOLEAN, OutputFile : {<<>>}]

InitApply ==
    /\ pc = "decode"
    /\ \E a \in Inputs, b \in Inputs, d \in TruncateBy :
          /\ patchBytes = LET whole == runDiffPatch(a, b)
                          IN Slice(whole, 0, Len(whole) - d)
          /\ oldData \in {a, b}
    /\ opts \in ApplyOptionSets
    /\ newData = <<>>
    /\ cfg = NoConfig
    /\ patches = <<>>
    /\ container = NoContainer
    /\ decoded = NoDecoded
    /\ result = NoResult
    /\ outFile = NoFile
    /\ err = "nil"

\* step 4: core.DecodeDiffFile, return on error
ApplyDecode ==
    /\ pc = "decode"
    /\ decoded' = DecodeDiffFile(patchBytes)
    /\ IF decoded'.err # "nil"
       THEN pc' = "done" /\ err' = "failed to decode patch"
       ELSE pc' = "verifyOld" /\ err' = err
    /\ UNCHANGED <<oldData, newData, cfg, patches, container, patchBytes,
                   result, opts, outFile>>

\* the OLD hash gate only warning: replay goes ahead on a mismatch
ApplyVerifyOldWarnOnly ==
    /\ pc = "verifyOld"
    /\ pc' = "replay"
    /\ UNCHANGED <<oldData, newData, cfg, patches, container, patchBytes,
                   decoded, result, opts, outFile, err>>

\* step 5: the OLD hash gate
ApplyVerifyOld ==
    /\ pc = "verifyOld"
    /\ IF ~CompareHashes(ComputeHash(oldData), decoded.df.OldHash)
       THEN pc' = "done" /\ err' = "hash mismatch"
       ELSE pc' = "replay" /\ err' = err
    /\ UNCHANGED <<oldData, newData, cfg, patches, container, patchBytes,
                   decoded, result, opts, outFile>>

\* steps 6-7: the context (a deadline when Timeout > 0) and the replay; with a
\* deadline the context may be done at any poll of the replay loop
ApplyReplay ==
    /\ pc = "replay"
    /\ \E cancelAt \in 1..(Len(decoded.df.Diff) + 1) :
          /\ opts.Timeout \/ cancelAt = Len(decoded.df.Diff) + 1
          /\ result' = ApplyPatchWithOptions(oldData, decoded.df.Diff, cancelAt)
    /\ pc' = IF result'.status = "panic" THEN "crashed" ELSE "verifyResult"
    /\ UNCHANGED <<oldData, newData, cfg, patches, container, patchBytes,
                   decoded, opts, outFile, err>>

\* the result hash gate only warning: the output is written on a mismatch
ApplyVerifyResultWarnOnly ==
    /\ pc = "verifyResult"
    /\ pc' = "write"
    /\ UNCHANGED <<oldData, newData, cfg, patches, container, patchBytes,
                   decoded, result, opts, outFile, err>>

\* step 8: the result hash gate, only when options.VerifyResult
ApplyVerifyResult ==
    /\ pc = "verifyResult"
    /\ IF opts.VerifyResult
          /\ ~CompareHashes(ComputeHash(result.data), decoded.df.NewHash)
       THEN pc' = "done" /\ err' = "result hash mismatch"
       ELSE pc' = "write" /\ err' = err
    /\ UNCHANGED <<oldData, newData, cfg, patches, container, patchBytes,
                   decoded, result, opts, outFile>>

\* steps 9-10: the output name and utils.SafeWrite
ApplyWrite ==
    /\ pc = "write"
    /\ outFile' = <<"file",
                    IF opts.OutputFile = <<>> THEN decoded.df.NewFileName
                                              ELSE opts.OutputFile,
                    result.data>>
    /\ pc' = "done"
    /\ UNCHANGED <<oldData, newData, cfg, patches, container, patchBytes,
                   decoded, result, opts, err>>

NextApply ==
    ApplyDecode \/ ApplyVerifyOld \/ ApplyReplay \/ ApplyVerifyResult \/ ApplyWrite

SpecApply == InitApply /\ [][NextApply]_vars

\* the digests the two gates compare
OldHashMatches == CompareHashes(ComputeHash(oldData), decoded.df.OldHash)
ResultHashMatches == CompareHashes(ComputeHash(result.data), decoded.df.NewHash)

-----------------------------------------------------------------------------
(* C6: when SHA-256(OLD) differs from the decoded header's old_hash, apply   *)
(* ends with a hash-mismatch error before any operation is replayed, and     *)
(* nothing is produced or written.                                           *)
OldHashGate ==
    (pc \notin {"decode", "verifyOld"} /\ decoded.err = "nil" /\ ~OldHashMatches) =>
        /\ pc = "done"
        /\ err = "hash mismatch"
        /\ result = NoResult
        /\ outFile = NoFile

\* the gate has refused a patch that carries operations
OldHashGateWitness ==
    /\ pc = "done"
    /\ err = "hash mismatch"
    /\ Len(decoded.df.Diff) >= 2
    /\ result = NoResult

-----------------------------------------------------------------------------
(* What the result gate and the step order leave true of every state *)
ResultHashGateInv ==
    /\ (opts.VerifyResult /\ outFile # NoFile) =>
          ResultHashMatches /\ outFile[3] = result.data
    /\ (opts.VerifyResult /\ result # NoResult /\ ~ResultHashMatches
          /\ pc \notin {"verifyResult", "crashed"}) =>
          pc = "done" /\ err = "result hash mismatch" /\ outFile = NoFile
    /\ pc # "decode" => decoded # NoDecoded
    /\ pc \in {"replay", "verifyResult", "write", "crashed"} =>
          decoded.err = "nil" /\ OldHashMatches
    /\ pc \in {"replay", "verifyOld", "decode"} => result = NoResult
    /\ result # NoResult => decoded.err = "nil" /\ OldHashMatches
    /\ pc \in {"verifyResult", "write"} => result # NoResult /\ outFile = NoFile
    /\ outFile # NoFile =>
          /\ pc = "done"
          /\ result # NoResult
          /\ outFile[3] = result.data
          /\ err = "nil"

\* the only moves of the command from one step to another
ApplyStepOrder ==
    { <<"decode", "verifyOld">>, <<"decode", "done">>,
      <<"verifyOld", "replay">>, <<"verifyOld", "done">>,
      <<"replay", "verifyResult">>, <<"replay", "crashed">>,
      <<"verifyResult", "write">>, <<"verifyResult", "done">>,
      <<"write", "done">> }

(* C7: with result verification on, the replay output is written only if     *)
(* its digest equals header.new_hash; on mismatch apply ends with a          *)
(* hash-mismatch error and no file.  The steps always come in the order      *)
(* decode, verify OLD hash, replay, verify result hash, write.               *)
ResultHashGate ==
    /\ []ResultHashGateInv
    /\ [][pc' # pc => <<pc, pc'>> \in ApplyStepOrder]_vars

\* an uncancelled replay whose output fails the result gate
ResultHashGateWitness ==
    /\ pc = "done"
    /\ opts.VerifyResult
    /\ err = "result hash mismatch"
    /\ result.status = "ok"
    /\ outFile = NoFile

-----------------------------------------------------------------------------
(* OptimizePatches (the exported optimizer): merges runs of adjacent COPY    *)
(* and of adjacent INSERT operations.  Data is a byte sequence by value:     *)
(* "append(current.Data, next.Data...)" is concatenation.                    *)

\* the two merge conditions ignoring the offsets: any two COPYs or INSERTs
mergeableAnyOffset(current, next) ==
    /\ current.Op = next.Op
    /\ current.Op \in {OP_INSERT, OP_COPY}

\* the conditions of the two "if"s of the inner loop
mergeable(current, next) ==
    \/ /\ current.Op = OP_INSERT /\ next.Op = OP_INSERT
       /\ current.Offset + current.Length = next.Offset
    \/ /\ current.Op = OP_COPY /\ next.Op = OP_COPY
       /\ current.Offset + current.Length = next.Offset

\* the bodies of the two "if"s: INSERT sums the lengths and appends the data,
\* COPY sums the lengths
absorb(current, next) ==
    IF current.Op = OP_INSERT
    THEN [current EXCEPT !.Length = current.Length + next.Length,
                         !.Data = current.Data \o next.Data]
    ELSE [current EXCEPT !.Length = current.Length + next.Length]

\* the inner loop leaving after its first merge
mergeRunOnce(ps, i, current) ==
    IF i + 1 <= Len(ps) /\ mergeable(current, ps[i + 1])
    THEN [current |-> absorb(current, ps[i + 1]), i |-> i + 1]
    ELSE [current |-> current, i |-> i]

\* the inner loop "for i+1 < len(patches)" (i is 1-based here): current and
\* i when it breaks
RECURSIVE mergeRun(_, _, _)
mergeRun(ps, i, current) ==
    IF i + 1 <= Len(ps) /\ mergeable(current, ps[i + 1])
    THEN mergeRun(ps, i + 1, absorb(current, ps[i + 1]))
    ELSE [current |-> current, i |-> i]

\* the outer loop from index i; "optimized" is the list returned
RECURSIVE optimizeFrom(_, _)
optimizeFrom(ps, i) ==
    IF i > Len(ps) THEN <<>>
    ELSE LET r == mergeRun(ps, i, ps[i])
         IN <<r.current>> \o optimizeFrom(ps, r.i + 1)

OptimizePatches(ps) ==
    IF Len(ps) <= 1 THEN ps ELSE optimizeFrom(ps, 1)

-----------------------------------------------------------------------------
(* The optimizer run once and then again on its own output *)

\* the longest operation list handed to the optimizer
MaxChain == 3

\* operations the lists are drawn from: COPYs and INSERTs that continue one
\* another, ones that leave a gap, an empty COPY, and the kinds never merged
OptimizerOps ==
    { Patch(OP_COPY, 0, 1, <<>>), Patch(OP_COPY, 1, 1, <<>>),
      Patch(OP_COPY, 2, 1, <<>>), Patch(OP_COPY, 1, 0, <<>>),
      Patch(OP_INSERT, 0, 1, <<97>>), Patch(OP_INSERT, 1, 1, <<98>>),
      Patch(OP_INSERT, 2, 2, <<97, 98>>),
      Patch(OP_REPLACE, 0, 1, <<97>>), Patch(OP_REPLACE, 1, 1, <<98>>),
      Patch(OP_MATCH, 0, 1, <<>>), Patch(OP_MATCH, 1, 1, <<>>),
      Patch(OP_DELETE, 0, 1, <<>>), Patch(OP_DELETE, 1, 1, <<>>) }

InitOptimize ==
    /\ pc = "ops"
    /\ patches \in SeqsUpTo(OptimizerOps, MaxChain)
    /\ oldData = <<>>
    /\ newData = <<>>
    /\ cfg = NoConfig
    /\ container = NoContainer
    /\ patchBytes = <<>>
    /\ decoded = NoDecoded
    /\ result = NoResult
    /\ opts = NoOpts
    /\ outFile = NoFile
    /\ err = "nil"

\* optimized := OptimizePatches(patches)
OptimizeOnce ==
    /\ pc = "ops"
    /\ result' = [ops |-> OptimizePatches(patches)]
    /\ pc' = "optimized"
    /\ UNCHANGED <<oldData, newData, cfg, patches, container, patchBytes,
                   decoded, opts, outFile, err>>

\* OptimizePatches(optimized)
OptimizeAgain ==
    /\ pc = "optimized"
    /\ decoded' = [ops |-> OptimizePatches(result.ops)]
    /\ pc' = "reoptimized"
    /\ UNCHANGED <<oldData, newData, cfg, patches, container, patchBytes,
                   result, opts, outFile, err>>

NextOptimize == OptimizeOnce \/ OptimizeAgain

SpecOptimize == InitOptimize /\ [][NextOptimize]_vars

-----------------------------------------------------------------------------
(* C11: the optimizer is idempotent: optimizing an already optimized list    *)
(* returns that list.                                                        *)
OptimizerIdempotent ==
    pc = "reoptimized" => decoded.ops = result.ops

\* a list the first run shortened by two operations has been run twice
OptimizerIdempotentWitness ==
    /\ pc = "reoptimized"
    /\ Len(patches) = MaxChain
    /\ Len(result.ops) = MaxChain - 2
    /\ decoded.ops = result.ops

-----------------------------------------------------------------------------
(* The merge rule, stated over the input list *)

\* q continues p: same kind, COPY or INSERT, q starts where p ends
Continues(p, q) ==
    /\ p.Op = q.Op
    /\ p.Op \in {OP_COPY, OP_INSERT}
    /\ q.Offset = p.Offset + p.Length

\* i starts a maximal chain; the chain of i ends at the last index before the
\* next start
ChainStart(ps, i) == i = 1 \/ ~Continues(ps[i - 1], ps[i])
ChainStarts(ps) == { i \in 1..Len(ps) : ChainStart(ps, i) }
ChainLast(ps, i) ==
    CHOOSE j \in i..Len(ps) :
        /\ \A k \in (i + 1)..j : ~ChainStart(ps, k)
        /\ j = Len(ps) \/ ChainStart(ps, j + 1)

RECURSIVE SumLength(_, _, _)
SumLength(ps, i, j) == IF i > j THEN 0 ELSE ps[i].Length + SumLength(ps, i + 1, j)

RECURSIVE JoinData(_, _, _)
JoinData(ps, i, j) == IF i > j THEN <<>> ELSE ps[i].Data \o JoinData(ps, i + 1, j)

\* the one operation that stands for the chain i..j
ChainOp(ps, i, j) ==
    Patch(ps[i].Op, ps[i].Offset, SumLength(ps, i, j),
          IF ps[i].Op = OP_INSERT THEN JoinData(ps, i, j) ELSE ps[i].Data)

\* out is ps with every maximal chain replaced by its one operation
IsMerged(out, ps) ==
    /\ Len(out) = Cardinality(ChainStarts(ps))
    /\ \A i \in ChainStarts(ps) :
          out[Cardinality({ s \in ChainStarts(ps) : s <= i })] =
              ChainOp(ps, i, ChainLast(ps, i))

-----------------------------------------------------------------------------
(* The differ under a context that can be done.  The scan polls the context  *)
(* once at the top of every iteration of its outer loop; polls are counted   *)
(* over the whole call of DiffWithOptions, and the context is seen done at   *)
(* poll number cancelAt and at every later poll (cancelAt = 0: never, the    *)
(* context has no deadline).                                                 *)

ScanResult(ops, polls, done) == [ops |-> ops, polls |-> polls, done |-> done]

\* "case <-options.Context.Done()" at the poll after `polls` earlier ones
ContextDone(polls, cancelAt) == cancelAt > 0 /\ polls + 1 >= cancelAt

\* the outer loop of sequentialDiff from position i; done: it returned from
\* the select
RECURSIVE ScanRunsCtx(_, _, _, _, _, _)
ScanRunsCtx(old, new, i, minLen, polls, cancelAt) ==
    IF i >= minLen THEN ScanResult(<<>>, polls, FALSE)
    ELSE IF ContextDone(polls, cancelAt) THEN ScanResult(<<>>, polls + 1, TRUE)
    ELSE LET eq == (old[i + 1] = new[i + 1])
             j  == RunEnd(old, new, i, minLen, eq)
             p  == IF eq THEN Patch(OP_COPY, i, j - i, <<>>)
                         ELSE Patch(OP_REPLACE, i, j - i, Slice(new, i, j))
             rest == ScanRunsCtx(old, new, j, minLen, polls + 1, cancelAt)
         IN ScanResult(<<p>> \o rest.ops, rest.polls, rest.done)

\* sequentialDiff: "return patches" from the select skips the tail
sequentialDiffCtx(old, new, polls, cancelAt) ==
    LET minLen == Min(Len(old), Len(new))
        scan == ScanRunsCtx(old, new, 0, minLen, polls, cancelAt)
    IN IF scan.done THEN scan
       ELSE ScanResult(scan.ops \o DiffTail(old, new, minLen), scan.polls, FALSE)

\* the window loop of streamingDiff: every window is scanned, whatever the
\* scan of the window before it returned
RECURSIVE streamWindowsCtx(_, _, _, _, _, _)
streamWindowsCtx(old, new, offset, chunkSize, polls, cancelAt) ==
    IF offset >= Len(new) THEN ScanResult(<<>>, polls, FALSE)
    ELSE LET end == Min(offset + chunkSize, Len(new))
             chunk == sequentialDiffCtx(old, Slice(new, offset, end), polls, cancelAt)
             rest == streamWindowsCtx(old, new, offset + chunkSize, chunkSize,
                                      chunk.polls, cancelAt)
         IN ScanResult(ShiftOffsets(chunk.ops, offset) \o rest.ops, rest.polls,
                       chunk.done \/ rest.done)

streamingDiffCtx(old, new, c, cancelAt) ==
    LET w == streamWindowsCtx(old, new, 0, streamChunkSize(c), 0, cancelAt)
    IN ScanResult(optimizePatches(w.ops), w.polls, w.done)

\* DiffWithOptions with options.Context; parallelDiff returns sequentialDiff
\* on each of its paths
DiffWithOptionsCtx(old, new, c, cancelAt) ==
    IF ExceedsMemory(old, new, c) THEN streamingDiffCtx(old, new, c, cancelAt)
    ELSE sequentialDiffCtx(old, new, 0, cancelAt)

-----------------------------------------------------------------------------
(* The diff command (runDiff): read the two files, diff under the timeout's  *)
(* context, build the container, encode, write.  Alignment is off (--fft=false). *)

DiffOptionSets == [Timeout : BOOLEAN, UseFFT : {FALSE}, OutputFile : {<<>>}]

\* "patch.bdf", the default output name
DefaultPatchName == <<112>>

InitDiffCmd ==
    /\ pc = "compute"
    /\ oldData \in Inputs
    /\ newData \in Inputs
    /\ opts \in DiffOptionSets
    /\ cfg = runDiffConfig
    /\ patches = <<>>
    /\ container = NoContainer
    /\ patchBytes = <<>>
    /\ decoded = NoDecoded
    /\ result = NoResult
    /\ outFile = NoFile
    /\ err = "nil"

\* steps 4-7: the context, the config and core.DiffWithOptions; result keeps
\* what the differ logged ("Diff operation cancelled" or nothing)
DiffCompute ==
    /\ pc = "compute"
    /\ \E cancelAt \in 0..(DiffWithOptionsCtx(oldData, newData, cfg, 0).polls) :
          /\ opts.Timeout \/ cancelAt = 0
          /\ LET r == DiffWithOptionsCtx(oldData, newData, cfg, cancelAt)
             IN /\ patches' = r.ops
                /\ result' = [status |-> IF r.done THEN "cancelled" ELSE "ok",
                              polls |-> r.polls]
    /\ pc' = "encode"
    /\ UNCHANGED <<oldData, newData, cfg, container, patchBytes, decoded, opts,
                   outFile, err>>

\* steps 9-10: the types.DiffFile literal and core.EncodeDiffFile
DiffEncode ==
    /\ pc = "encode"
    /\ container' = buildDiffFile(OldName, NewName, oldData, newData, 0, patches)
    /\ patchBytes' = EncodeDiffFile(container')
    /\ pc' = "write"
    /\ UNCHANGED <<oldData, newData, cfg, patches, decoded, result, opts,
                   outFile, err>>

\* step 11: utils.SafeWrite of the patch file
DiffWrite ==
    /\ pc = "write"
    /\ outFile' = <<"file",
                    IF opts.OutputFile = <<>> THEN DefaultPatchName
                                              ELSE opts.OutputFile,
                    patchBytes>>
    /\ pc' = "done"
    /\ UNCHANGED <<oldData, newData, cfg, patches, container, patchBytes,
                   decoded, result, opts, err>>

NextDiffCmd == DiffCompute \/ DiffEncode \/ DiffWrite

SpecDiffCmd == InitDiffCmd /\ [][NextDiffCmd]_vars

-----------------------------------------------------------------------------
(* C13: a cancelled diff is never encoded: when the timeout fires while the  *)
(* differ is scanning, no patch is encoded or written from the partial       *)
(* operation list it returned.                                               *)
CancelledDiffNeverEncoded ==
    (result # NoResult /\ result.status = "cancelled") =>
        /\ patchBytes = <<>>
        /\ outFile = NoFile

-----------------------------------------------------------------------------
(* C14: a replay stopped by the cancellation handle is reported as           *)
(* cancelled, so the apply command never writes its partial output as the    *)
(* patched file, with result verification on or off.                         *)
CancelledApplyNotWritten ==
    (/\ result # NoResult
     /\ result.status = "cancelled"
     /\ result.data # ApplyPatch(oldData, decoded.df.Diff).data) =>
        outFile = NoFile

-----------------------------------------------------------------------------
(* C15: DiffWithOptions uses the streaming strategy iff |OLD| + |NEW| >      *)
(* max_memory_bytes; otherwise the parallel strategy iff use_parallel is set *)
(* and |OLD| > block_size * 10; and the sequential strategy otherwise.       *)
StrategySelection ==
    pc # "start" =>
        LET maxMemoryBytes == cfg.MaxMemoryMB * BytesPerMB
            total == Len(oldData) + Len(newData)
            chosen == selectStrategy(oldData, newData, cfg)
            large == Len(oldData) > cfg.BlockSize * 10
        IN /\ chosen = "streaming" <=> total > maxMemoryBytes
           /\ chosen = "parallel" <=>
                 (total <= maxMemoryBytes /\ cfg.UseParallel /\ large)
           /\ chosen = "sequential" <=>
                 (total <= maxMemoryBytes /\ ~(cfg.UseParallel /\ large))
           /\ chosen = "streaming" => patches = streamingDiff(oldData, newData, cfg)
           /\ chosen = "parallel" => patches = parallelDiff(oldData, newData, cfg)
           /\ chosen = "sequential" => patches = sequentialDiff(oldData, newData)

\* a diff that fitted the memory limit exactly and went to the parallel
\* strategy
StrategySelectionWitness ==
    /\ pc = "diffed"
    /\ Len(oldData) + Len(newData) = cfg.MaxMemoryMB * BytesPerMB
    /\ cfg.UseParallel
    /\ Len(oldData) > cfg.BlockSize * 10
    /\ selectStrategy(oldData, newData, cfg) = "parallel"
    /\ patches = parallelDiff(oldData, newData, cfg)

-----------------------------------------------------------------------------
(* The applier on arbitrary operation lists (ApplyPatch called by a library  *)
(* user, as in TestErrorHandling, or runApply on a patch file of any origin) *)

\* an offset beyond every OLD of the model
BeyondOld == MaxLen + 1

\* operations the lists are drawn from: in-range and out-of-range offsets,
\* windows reaching past the end of OLD, REPLACE / DELETE that carry the
\* cursor past the end, an unknown kind, a negative length, a negative offset,
\* and a length no buffer can be allocated for
ReplayOps ==
    { Patch(OP_COPY, 0, 1, <<>>), Patch(OP_COPY, 1, 2, <<>>),
      Patch(OP_COPY, 2, BeyondOld, <<>>), Patch(OP_MATCH, 1, 1, <<>>),
      Patch(OP_COPY, BeyondOld, 1, <<>>), Patch(OP_COPY, BeyondOld, -1, <<>>),
      Patch(OP_COPY, 0, MaxAlloc + 1, <<>>), Patch(OP_COPY, -1, 1, <<>>),
      Patch(OP_INSERT, 0, 1, <<97>>), Patch(OP_INSERT, 2, 1, <<98>>),
      Patch(OP_INSERT, BeyondOld, 1, <<98>>),
      Patch(OP_REPLACE, 0, 1, <<98>>), Patch(OP_REPLACE, 1, BeyondOld, <<97>>),
      Patch(OP_DELETE, 0, 1, <<>>), Patch(OP_DELETE, 1, BeyondOld, <<>>),
      Patch(0, 1, 1, <<98>>) }

InitReplay ==
    /\ pc = "ops"
    /\ oldData \in Inputs
    /\ patches \in SeqsUpTo(ReplayOps, MaxOps)
    /\ newData = <<>>
    /\ cfg = NoConfig
    /\ container = NoContainer
    /\ patchBytes = <<>>
    /\ decoded = NoDecoded
    /\ result = NoResult
    /\ opts = NoOpts
    /\ outFile = NoFile
    /\ err = "nil"

\* result := core.ApplyPatch(oldData, patches)
Replay ==
    /\ pc = "ops"
    /\ result' = ApplyPatch(oldData, patches)
    /\ pc' = "replayed"
    /\ UNCHANGED <<oldData, newData, cfg, patches, container, patchBytes,
                   decoded, opts, outFile, err>>

NextReplay == Replay

SpecReplay == InitReplay /\ [][NextReplay]_vars

\* the operations of ps whose offset lies within old
InRange(ps, old) == SelectSeq(ps, LAMBDA p : p.Offset <= Len(old))

-----------------------------------------------------------------------------
(* C16: an operation with offset > |OLD| is a non-fatal skip: it changes     *)
(* neither the cursor nor the output, replay goes on with the operations     *)
(* after it and never aborts, whatever the operation's length; so            *)
(* ApplyPatch(OLD, [COPY(offset > |OLD|, any length)]) = OLD.                *)
OutOfRangeOffsetSkipped ==
    pc = "replayed" =>
        /\ result = ApplyPatch(oldData, InRange(patches, oldData))
        /\ (Len(patches) = 1 /\ patches[1].Op = OP_COPY
               /\ patches[1].Offset > Len(oldData)) =>
              result.status = "ok" /\ result.data = oldData

-----------------------------------------------------------------------------
(* FFT: Transform (iterativeFFT) and ParallelTransform                       *)
(* (parallelIterativeFFT).  Arrays are functions over 0..n-1, as the code    *)
(* indexes them.  A complex128 value is the term that computes it: the       *)
(* operands and operations in the order the code applies them, so two equal  *)
(* terms are the same floating-point value.                                  *)

\* input[i]
Sample(i) == "x" \o ToString(i)
InputVector(n) == [i \in 0..(n - 1) |-> Sample(i)]

\* u + v, u - v, v * w, x * scale
Add(u, v) == "(" \o u \o "+" \o v \o ")"
Sub(u, v) == "(" \o u \o "-" \o v \o ")"
Mul(v, w) == "(" \o v \o "*" \o w \o ")"
Scale(x, n) == "(" \o x \o "*(1/" \o ToString(n) \o "))"

\* w after j executions of "w *= wlen" from complex(1, 0), wlen = fft.roots[r]
RECURSIVE Twiddle(_, _)
Twiddle(r, j) == IF j = 0 THEN "1" ELSE Mul(Twiddle(r, j - 1), "r" \o ToString(r))

\* int(math.Log2(float64(n))) for n >= 1
RECURSIVE Log2(_)
Log2(n) == IF n <= 1 THEN 0 ELSE 1 + Log2(n \div 2)

RECURSIVE reverseBitsFrom(_, _, _)
reverseBitsFrom(num, bits, i) ==
    IF i >= bits THEN 0
    ELSE (IF (num \div (2 ^ i)) % 2 = 1 THEN 2 ^ (bits - 1 - i) ELSE 0)
             + reverseBitsFrom(num, bits, i + 1)

reverseBits(num, bits) == reverseBitsFrom(num, bits, 0)

\* fft.bitReverse, filled by precomputeBitReverse
bitReverse(n) == [i \in 0..(n - 1) |-> reverseBits(i, Log2(n))]

\* the bit-reversal copy "output[i] = input[fft.bitReverse[i]]"
bitReverseCopy(n, input) == [i \in 0..(n - 1) |-> input[bitReverse(n)[i]]]

\* the index of wlen in fft.roots for the stage of this length
wlenIndex(n, length, inverse) ==
    LET step == n \div length
    IN IF inverse THEN n - step ELSE step

\* the body of the j loop: one butterfly on output[lo], output[lo + half]
butterfly(output, lo, half, w) ==
    LET u == output[lo]
        v == Mul(output[lo + half], w)
    IN [output EXCEPT ![lo] = Add(u, v), ![lo + half] = Sub(u, v)]

\* "for j := 0; j < half; j++" on the segment at start
RECURSIVE segmentLoop(_, _, _, _, _)
segmentLoop(output, start, j, half, r) ==
    IF j >= half THEN output
    ELSE segmentLoop(butterfly(output, start + j, half, Twiddle(r, j)),
                     start, j + 1, half, r)

\* "for start := 0; start < n; start += length"
RECURSIVE startLoop(_, _, _, _, _)
startLoop(output, start, n, length, r) ==
    IF start >= n THEN output
    ELSE startLoop(segmentLoop(output, start, 0, length \div 2, r),
                   start + length, n, length, r)

\* "for length := 2; length <= n; length <<= 1"
RECURSIVE lengthLoop(_, _, _, _)
lengthLoop(output, n, length, inverse) ==
    IF length > n THEN output
    ELSE lengthLoop(startLoop(output, 0, n, length, wlenIndex(n, length, inverse)),
                    n, length * 2, inverse)

\* the inverse transform's division by n
normalize(output, n, inverse) ==
    IF inverse THEN [i \in DOMAIN output |-> Scale(output[i], n)] ELSE output

iterativeFFT(n, input, inverse) ==
    normalize(lengthLoop(bitReverseCopy(n, input), n, 2, inverse), n, inverse)

\* Transform on input and output of length fft.n
Transform(n, input, inverse) ==
    IF n = 1 THEN [i \in 0..0 |-> input[0]]
    ELSE iterativeFFT(n, input, inverse)

-----------------------------------------------------------------------------
(* TestParallelFFT: Transform, then ParallelTransform on the same input.     *)
(* A goroutine of parallelIterativeFFT takes one butterfly per step; the     *)
(* goroutines of a stage run while the stage's loop is still starting the    *)
(* others, and wg.Wait() ends the stage.                                     *)

\* FFT sizes 2^0 .. 2^MaxLogN
MaxLogN == 3

\* numWorkers 1 .. MaxNumWorkers
MaxNumWorkers == 3

\* the size from which ParallelTransform runs goroutines (1024, scaled)
ParallelThreshold == 4

FFTCalls == [n : {2 ^ k : k \in 0..MaxLogN}, inverse : BOOLEAN,
             numWorkers : 1..MaxNumWorkers]

InitFFT ==
    /\ pc = "call"
    /\ cfg \in FFTCalls
    /\ result = NoResult
    /\ oldData = <<>>
    /\ newData = <<>>
    /\ patches = <<>>
    /\ container = NoContainer
    /\ patchBytes = <<>>
    /\ decoded = NoDecoded
    /\ opts = NoOpts
    /\ outFile = NoFile
    /\ err = "nil"

\* a butterfly as the stage, the lower index and the twiddle step
Butterfly(length, lo, j) == [length |-> length, lo |-> lo, j |-> j]

\* fft.Transform(input, serialOutput, inverse)
TransformSerial ==
    /\ pc = "call"
    /\ result' = [serial |-> Transform(cfg.n, InputVector(cfg.n), cfg.inverse),
                  output |-> [i \in 0..(cfg.n - 1) |-> "0"],
                  length |-> 0, chunkSize |-> 0, workerStart |-> 0,
                  workers |-> {}, applied |-> {}, started |-> 0]
    /\ pc' = "parallel"
    /\ UNCHANGED <<oldData, newData, cfg, patches, container, patchBytes,
                   decoded, opts, outFile, err>>

\* ParallelTransform: the sequential transform for one worker or a small
\* size, else the bit-reversal copy of parallelIterativeFFT
ParallelEnter ==
    /\ pc = "parallel"
    /\ IF cfg.numWorkers <= 1 \/ cfg.n < ParallelThreshold
       THEN /\ result' = [result EXCEPT
                  !.output = Transform(cfg.n, InputVector(cfg.n), cfg.inverse)]
            /\ pc' = "done"
       ELSE /\ result' = [result EXCEPT
                  !.output = bitReverseCopy(cfg.n, InputVector(cfg.n)),
                  !.length = 2]
            /\ pc' = "stage"
    /\ UNCHANGED <<oldData, newData, cfg, patches, container, patchBytes,
                   decoded, opts, outFile, err>>

\* the head of the length loop: chunkSize for this stage
StageBegin ==
    /\ pc = "stage"
    /\ IF result.length > cfg.n
       THEN pc' = "normalize" /\ result' = result
       ELSE /\ result' = [result EXCEPT
                  !.chunkSize = LET c == (cfg.n \div result.length) \div cfg.numWorkers
                                IN IF c = 0 THEN 1 ELSE c,
                  !.workerStart = 0,
                  !.started = 0]
            /\ pc' = "spawn"
    /\ UNCHANGED <<oldData, newData, cfg, patches, container, patchBytes,
                   decoded, opts, outFile, err>>

\* one iteration of the workerStart loop: wg.Add(1) and "go func(start)"
SpawnWorker ==
    /\ pc = "spawn"
    /\ result.workerStart < cfg.n
    /\ result' = [result EXCEPT
          !.workers = @ \cup {[start |-> result.workerStart,
                               chunkStart |-> result.workerStart, j |-> 0]},
          !.workerStart = @ + result.chunkSize * result.length,
          !.started = @ + 1]
    /\ pc' = pc
    /\ UNCHANGED <<oldData, newData, cfg, patches, container, patchBytes,
                   decoded, opts, outFile, err>>

\* the workerStart loop ends; the stage goes to wg.Wait()
SpawnEnd ==
    /\ pc = "spawn"
    /\ result.workerStart >= cfg.n
    /\ pc' = "wait"
    /\ UNCHANGED <<oldData, newData, cfg, patches, container, patchBytes,
                   decoded, result, opts, outFile, err>>

\* a goroutine stopping after the first segment of its chunk
workerEndOneSegment(start, chunkSize, length, n) == start + length

\* a goroutine running one segment into the next goroutine's chunk
workerEndOverlapping(start, chunkSize, length, n) ==
    Min(start + chunkSize * length + length, n)

\* "end" of the goroutine started at start
workerEnd(start, chunkSize, length, n) == Min(start + chunkSize * length, n)

\* a goroutine's next butterfly; after its last one it returns (wg.Done)
WorkerStep ==
    /\ pc \in {"spawn", "wait"}
    /\ \E w \in result.workers :
          LET length == result.length
              half == length \div 2
              end  == workerEnd(w.start, result.chunkSize, length, cfg.n)
              r    == wlenIndex(cfg.n, length, cfg.inverse)
              next == IF w.j + 1 < half THEN [w EXCEPT !.j = @ + 1]
                      ELSE [w EXCEPT !.chunkStart = @ + length, !.j = 0]
          IN result' = [result EXCEPT
                !.output = butterfly(@, w.chunkStart + w.j, half, Twiddle(r, w.j)),
                !.applied = @ \cup {Butterfly(length, w.chunkStart + w.j, w.j)},
                !.workers = IF next.chunkStart < end
                            THEN (@ \ {w}) \cup {next}
                            ELSE @ \ {w}]
    /\ pc' = pc
    /\ UNCHANGED <<oldData, newData, cfg, patches, container, patchBytes,
                   decoded, opts, outFile, err>>

\* wg.Wait() returns and the length loop goes to the next stage
StageWait ==
    /\ pc = "wait"
    /\ result.workers = {}
    /\ result' = [result EXCEPT !.length = @ * 2]
    /\ pc' = "stage"
    /\ UNCHANGED <<oldData, newData, cfg, patches, container, patchBytes,
                   decoded, opts, outFile, err>>

\* the normalisation of the inverse transform after the last stage
Normalize ==
    /\ pc = "normalize"
    /\ result' = [result EXCEPT !.output = normalize(@, cfg.n, cfg.inverse)]
    /\ pc' = "done"
    /\ UNCHANGED <<oldData, newData, cfg, patches, container, patchBytes,
                   decoded, opts, outFile, err>>

NextFFT ==
    \/ TransformSerial \/ ParallelEnter \/ StageBegin \/ SpawnWorker
    \/ SpawnEnd \/ WorkerStep \/ StageWait \/ Normalize

SpecFFT == InitFFT /\ [][NextFFT]_vars

\* the call runs goroutines
RunsParallel == cfg.numWorkers > 1 /\ cfg.n >= ParallelThreshold

\* the butterflies iterativeFFT applies: every stage, segment and j
TransformButterflies(n) ==
    UNION { { Butterfly(2 ^ k, m * (2 ^ k) + j, j) :
                m \in 0..(n \div (2 ^ k) - 1), j \in 0..(2 ^ (k - 1) - 1) } :
            k \in 1..Log2(n) }

\* the butterflies of the stages before the one of this length
ButterfliesBefore(n, length) == { b \in TransformButterflies(n) : b.length < length }

-----------------------------------------------------------------------------
(* C17: for every power-of-two size from the parallel threshold up, every    *)
(* numWorkers >= 1, every input vector and both directions,                  *)
(* ParallelTransform applies the same butterflies stage by stage as          *)
(* Transform and returns the same output vector.                             *)
ParallelEqualsSerial ==
    /\ pc = "done" => result.output = result.serial
    /\ (pc = "done" /\ RunsParallel) => result.applied = TransformButterflies(cfg.n)
    /\ pc \in {"spawn", "wait"} =>
          /\ ButterfliesBefore(cfg.n, result.length) \subseteq result.applied
          /\ result.applied \subseteq ButterfliesBefore(cfg.n, 2 * result.length)

\* the largest size, inverse, run by a number of workers that is not a power
\* of two, has finished with the sequential output
ParallelEqualsSerialWitness ==
    /\ pc = "done"
    /\ RunsParallel
    /\ cfg.n = 2 ^ MaxLogN
    /\ cfg.numWorkers = 3
    /\ cfg.inverse
    /\ result.output = result.serial
    /\ Cardinality(result.applied) = (cfg.n \div 2) * MaxLogN

-----------------------------------------------------------------------------
(* NextPowerOfTwo on Go's int.  An int is the set of the positions of its 1  *)
(* bits (two's complement, bit WordBits - 1 the sign), so that values up to  *)
(* 2^31 and beyond keep their exact bit patterns.                            *)

\* the width of int
WordBits == 64

WordZero == {}
WordOne == {0}

\* n - 1, wrapping
WordDec(n) ==
    IF n = {} THEN 0..(WordBits - 1)
    ELSE LET b == CHOOSE i \in n : \A k \in n : i <= k
         IN (n \ {b}) \cup 0..(b - 1)

\* n + 1, wrapping
WordInc(n) ==
    IF n = 0..(WordBits - 1) THEN {}
    ELSE LET z == CHOOSE i \in (0..(WordBits - 1)) \ n :
                      \A k \in (0..(WordBits - 1)) \ n : i <= k
         IN (n \ 0..(z - 1)) \cup {z}

\* n >> k on a signed int: the sign bit is copied in from the left
WordShr(n, k) ==
    { i - k : i \in { b \in n : b >= k } }
        \cup (IF (WordBits - 1) \in n THEN (WordBits - k)..(WordBits - 1) ELSE {})

\* n |= n >> k
orShift(n, k) == n \cup WordShr(n, k)

\* the shifts without the last one, "n |= n >> 16"
smearWithout16(n) == orShift(orShift(orShift(orShift(n, 1), 2), 4), 8)

\* the five "n |= n >> k" statements
smear(n) == orShift(orShift(orShift(orShift(orShift(n, 1), 2), 4), 8), 16)

NextPowerOfTwo(n) ==
    IF n = WordZero THEN WordOne
    ELSE WordInc(smear(WordDec(n)))

-----------------------------------------------------------------------------
(* TestNextPowerOfTwo: the function called on one argument *)

\* arguments have their 1 bits among the low ArgBits positions ...
ArgBits == 34

\* ... and are a run of 1 bits, two single bits, or any pattern of
\* PatternBits adjacent positions
PatternBits == 4

PowerArguments ==
    { 0..(p - 1) : p \in 0..ArgBits }
        \cup { {p, q} : p \in 0..(ArgBits - 1), q \in 0..(ArgBits - 1) }
        \cup { { b + sh : b \in pat } :
                 pat \in SUBSET (0..(PatternBits - 1)),
                 sh \in 0..(ArgBits - PatternBits) }

InitPower ==
    /\ pc = "call"
    /\ cfg \in [n : PowerArguments]
    /\ result = NoResult
    /\ oldData = <<>>
    /\ newData = <<>>
    /\ patches = <<>>
    /\ container = NoContainer
    /\ patchBytes = <<>>
    /\ decoded = NoDecoded
    /\ opts = NoOpts
    /\ outFile = NoFile
    /\ err = "nil"

\* result := core.NextPowerOfTwo(tc.input)
PowerCall ==
    /\ pc = "call"
    /\ result' = [value |-> NextPowerOfTwo(cfg.n)]
    /\ pc' = "returned"
    /\ UNCHANGED <<oldData, newData, cfg, patches, container, patchBytes,
                   decoded, opts, outFile, err>>

NextPower == PowerCall

SpecPower == InitPower /\ [][NextPower]_vars

\* n <= 2^p, for n >= 0
AtMostPowerOfTwo(n, p) == n = {p} \/ \A b \in n : b < p

-----------------------------------------------------------------------------
(* C18: NextPowerOfTwo(0) = 1 and, for 1 <= n <= 2^31, NextPowerOfTwo(n) is  *)
(* the smallest power of two that is >= n (a power of two is returned        *)
(* unchanged).                                                               *)
SmallestPowerOfTwo ==
    pc = "returned" =>
        /\ cfg.n = WordZero => result.value = WordOne
        /\ (cfg.n # WordZero /\ AtMostPowerOfTwo(cfg.n, 31)) =>
              \E p \in 0..31 :
                 /\ result.value = {p}
                 /\ AtMostPowerOfTwo(cfg.n, p)
                 /\ p = 0 \/ ~AtMostPowerOfTwo(cfg.n, p - 1)
                 /\ cfg.n = {p} => result.value = cfg.n

\* 2^30 + 1 was rounded up to 2^31
SmallestPowerOfTwoWitness ==
    /\ pc = "returned"
    /\ cfg.n = {0, 30}
    /\ result.value = {31}

-----------------------------------------------------------------------------
(* The replay rules, written out from their statement *)

\* OLD[a:b]: the bytes of old at the positions a .. b-1 that exist
OldBytes(old, a, b) ==
    LET lo == IF a < 0 THEN 0 ELSE a
        hi == Min(b, Len(old))
    IN IF hi > lo THEN [k \in 1..(hi - lo) |-> old[lo + k]] ELSE <<>>

ReplayState(cursor, out) == [cursor |-> cursor, out |-> out]

\* one operation: the gap before it, then the effect of its kind
RuleStep(old, p, st) ==
    LET g == IF p.Offset > st.cursor
             THEN ReplayState(p.Offset, st.out \o OldBytes(old, st.cursor, p.Offset))
             ELSE st
        window == OldBytes(old, g.cursor, g.cursor + p.Length)
    IN CASE p.Op \in {OP_COPY, OP_MATCH} ->
                ReplayState(g.cursor + Len(window), g.out \o window)
         [] p.Op = OP_INSERT  -> ReplayState(g.cursor, g.out \o p.Data)
         [] p.Op = OP_REPLACE -> ReplayState(g.cursor + p.Length, g.out \o p.Data)
         [] p.Op = OP_DELETE  -> ReplayState(g.cursor + p.Length, g.out)
         [] OTHER -> g

RECURSIVE RuleFold(_, _, _)
RuleFold(old, ps, st) ==
    IF ps = <<>> THEN st ELSE RuleFold(old, Tail(ps), RuleStep(old, Head(ps), st))

\* the output of the replay: the operations in order from cursor 0, then the
\* rest of OLD
RuleReplay(old, ps) ==
    LET st == RuleFold(old, ps, ReplayState(0, <<>>))
    IN IF st.cursor < Len(old)
       THEN st.out \o OldBytes(old, st.cursor, Len(old))
       ELSE st.out

NonNegativeLengths(ps) == \A k \in 1..Len(ps) : ps[k].Length >= 0

(* C20 as stated: for every OLD and every operation list with non-negative   *)
(* lengths the uncancelled applier returns the output of the replay rules    *)
(* (gap copy, COPY/MATCH truncated window, INSERT, REPLACE, DELETE, unknown  *)
(* kind, trailing copy), every operation of the list being replayed.         *)
ReplayRulesAllOps ==
    (pc = "replayed" /\ NonNegativeLengths(patches)) =>
        /\ result.status = "ok"
        /\ result.data = RuleReplay(oldData, patches)

-----------------------------------------------------------------------------
(* sequentialDiff step by step under a context with a deadline: the poll at  *)
(* the top of the outer loop, the inner loops byte by byte, the tail.  The   *)
(* deadline may pass between any two steps.                                  *)

\* the cadence asked of the polls, in bytes of NEW (4 KiB, scaled)
PollCadence == 2

InitScan ==
    /\ pc = "poll"
    /\ oldData \in Inputs
    /\ newData \in Inputs
    /\ result = [i |-> 0, start |-> 0, eq |-> FALSE, ops |-> <<>>,
                 fired |-> FALSE, sinceFired |-> 0, cancelled |-> FALSE]
    /\ cfg = NoConfig
    /\ patches = <<>>
    /\ container = NoContainer
    /\ patchBytes = <<>>
    /\ decoded = NoDecoded
    /\ opts = NoOpts
    /\ outFile = NoFile
    /\ err = "nil"

\* the deadline of options.Context passes
ContextFire ==
    /\ pc \in {"poll", "run"}
    /\ ~result.fired
    /\ result' = [result EXCEPT !.fired = TRUE]
    /\ pc' = pc
    /\ UNCHANGED <<oldData, newData, cfg, patches, container, patchBytes,
                   decoded, opts, outFile, err>>

\* ScanPoll whose cancellation branch goes on to the tail instead of
\* returning
ScanPollTailOnCancel ==
    /\ pc = "poll"
    /\ LET minLen == Min(Len(oldData), Len(newData))
       IN IF result.i >= minLen
          THEN pc' = "tail" /\ result' = result
          ELSE IF result.fired
          THEN /\ pc' = "tail"
               /\ result' = [result EXCEPT !.cancelled = TRUE]
          ELSE /\ pc' = "run"
               /\ result' = [result EXCEPT
                     !.start = result.i,
                     !.eq = (oldData[result.i + 1] = newData[result.i + 1])]
    /\ patches' = patches
    /\ UNCHANGED <<oldData, newData, cfg, container, patchBytes, decoded, opts,
                   outFile, err>>

\* the head of "for i < minLen": the loop test, the select on Done(), and
\* the test of the byte at i that opens a run
ScanPoll ==
    /\ pc = "poll"
    /\ LET minLen == Min(Len(oldData), Len(newData))
       IN IF result.i >= minLen
          THEN pc' = "tail" /\ result' = result
          ELSE IF result.fired
          THEN /\ pc' = "returned"
               /\ result' = [result EXCEPT !.cancelled = TRUE]
          ELSE /\ pc' = "run"
               /\ result' = [result EXCEPT
                     !.start = result.i,
                     !.eq = (oldData[result.i + 1] = newData[result.i + 1])]
    /\ patches' = IF pc' = "returned" THEN result.ops ELSE patches
    /\ UNCHANGED <<oldData, newData, cfg, container, patchBytes, decoded, opts,
                   outFile, err>>

\* one test of the inner loop: the byte at i continues the run and i++, or
\* the run ends and its operation is appended
ScanByte ==
    /\ pc = "run"
    /\ LET minLen == Min(Len(oldData), Len(newData))
           i == result.i
       IN IF i < minLen /\ ((oldData[i + 1] = newData[i + 1]) = result.eq)
          THEN /\ result' = [result EXCEPT
                     !.i = i + 1,
                     !.sinceFired = IF result.fired THEN @ + 1 ELSE @]
               /\ pc' = pc
          ELSE /\ result' = [result EXCEPT !.ops = Append(@,
                     IF result.eq
                     THEN Patch(OP_COPY, result.start, i - result.start, <<>>)
                     ELSE Patch(OP_REPLACE, result.start, i - result.start,
                                Slice(newData, result.start, i)))]
               /\ pc' = "poll"
    /\ UNCHANGED <<oldData, newData, cfg, patches, container, patchBytes,
                   decoded, opts, outFile, err>>

\* the tail INSERT / DELETE and "return patches"
ScanTail ==
    /\ pc = "tail"
    /\ result' = [result EXCEPT !.ops =
          @ \o DiffTail(oldData, newData, Min(Len(oldData), Len(newData)))]
    /\ patches' = result'.ops
    /\ pc' = "returned"
    /\ UNCHANGED <<oldData, newData, cfg, container, patchBytes, decoded, opts,
                   outFile, err>>

NextScan == ContextFire \/ ScanPoll \/ ScanByte \/ ScanTail

SpecScan == InitScan /\ [][NextScan]_vars

-----------------------------------------------------------------------------
(* C21: the scan polls the cancellation handle at least once per cadence     *)
(* (4 KiB) of NEW scanned: once the handle has fired, the scan returns after *)
(* examining at most that many further bytes, also within one long run.      *)
BoundedPollCadence ==
    pc \in {"poll", "run", "tail", "returned"} =>
        result.sinceFired <= PollCadence

-----------------------------------------------------------------------------
(* What a partial result must be *)

IsPrefix(ps, full) == Len(ps) <= Len(full) /\ ps = SubSeq(full, 1, Len(ps))

\* p is a complete maximal run of old against new: its bytes all compare
\* alike, and the byte before it and the byte after it (within the common
\* length) compare otherwise
MaximalRun(p, old, new) ==
    LET minLen == Min(Len(old), Len(new))
        same(k) == old[k + 1] = new[k + 1]
        eq == (p.Op = OP_COPY)
    IN /\ p.Op \in {OP_COPY, OP_REPLACE}
       /\ p.Length >= 1
       /\ p.Offset >= 0 /\ p.Offset + p.Length <= minLen
       /\ \A k \in p.Offset..(p.Offset + p.Length - 1) : same(k) = eq
       /\ p.Offset > 0 => same(p.Offset - 1) # eq
       /\ p.Offset + p.Length < minLen => same(p.Offset + p.Length) # eq

PartialResult ==
    /\ IsPrefix(patches, sequentialDiff(oldData, newData))
    /\ \A k \in 1..Len(patches) : MaximalRun(patches[k], oldData, newData)
    /\ \A k \in 1..Len(patches) : patches[k].Op \notin {OP_INSERT, OP_DELETE}

(* C29 as stated: if the cancellation handle fires during sequentialDiff,    *)
(* the list returned is a prefix of the uncancelled list, every operation    *)
(* is a complete maximal run and the tail INSERT/DELETE is not included.     *)
FiredGivesPartialResult ==
    (pc = "returned" /\ result.fired) => PartialResult

(* C29 amended: if sequentialDiff returns because a poll saw the handle      *)
(* fired, the list returned is a proper prefix of the uncancelled list,      *)
(* every operation is a complete maximal run and the tail INSERT/DELETE is   *)
(* not included.                                                             *)
CancelledGivesPartialResult ==
    (pc = "returned" /\ result.cancelled) =>
        /\ PartialResult
        /\ Len(patches) < Len(sequentialDiff(oldData, newData))

\* a scan cancelled after its first run, of inputs whose full diff has one
\* more run and a tail
CancelledGivesPartialResultWitness ==
    /\ pc = "returned"
    /\ result.cancelled
    /\ Len(patches) = 1
    /\ Len(sequentialDiff(oldData, newData)) = 3
    /\ Len(oldData) # Len(newData)

-----------------------------------------------------------------------------
(* C22: replaying diff(A, B) against A, the lengths of the output-producing  *)
(* operations (COPY, INSERT, REPLACE, MATCH) plus the |A| - cursor bytes     *)
(* copied after the last operation add up to |B|.                            *)
SizeDifferential ==
    pc = "applied" =>
        estimatedSize(decoded.df.Diff)
            + (IF result.cursor < Len(oldData) THEN Len(oldData) - result.cursor ELSE 0)
          = Len(newData)

-----------------------------------------------------------------------------
\* each operation's offset is greater than its predecessor's
StrictlyIncreasing(ps) == \A k \in 2..Len(ps) : ps[k].Offset > ps[k - 1].Offset

(* C23: the list returned by DiffWithOptions, whichever strategy it selects, *)
(* has strictly increasing offsets, and OptimizePatches applied to a         *)
(* strictly increasing list returns a strictly increasing list.              *)
OffsetOrdering ==
    pc # "start" =>
        /\ StrictlyIncreasing(patches)
        /\ StrictlyIncreasing(patches) => StrictlyIncreasing(OptimizePatches(patches))

(* C24: the list streamingDiff returns is already optimized: no adjacent     *)
(* pair of the same kind, COPY or INSERT, with p.offset + p.length equal to  *)
(* q.offset remains, so OptimizePatches returns the list unchanged.          *)
StreamingOutputOptimized ==
    (pc # "start" /\ selectStrategy(oldData, newData, cfg) = "streaming") =>
        /\ \A k \in 2..Len(patches) : ~mergeable(patches[k - 1], patches[k])
        /\ OptimizePatches(patches) = patches

-----------------------------------------------------------------------------
\* the output indices the goroutine started at start reads and writes
WorkerRange(start) ==
    { i \in 0..(cfg.n - 1) :
        start <= i /\ i < workerEnd(start, result.chunkSize, result.length, cfg.n) }

\* the indices of a running goroutine's next butterfly
NextAccess(w) == {w.chunkStart + w.j, w.chunkStart + w.j + result.length \div 2}

\* the starts of the goroutines the workerStart loop has started in this stage
StageStarts == { k * result.chunkSize * result.length : k \in 0..(result.started - 1) }

(* C25: in parallelIterativeFFT no output index is accessed by two           *)
(* goroutines running at once: within a stage the goroutines' index ranges   *)
(* are pairwise disjoint and cover [0, n), every access falls in the         *)
(* goroutine's own range, and no goroutine of the next stage is started      *)
(* before every goroutine of the current stage has finished.                 *)
ParallelRaceFree ==
    /\ pc \in {"spawn", "wait"} =>
          /\ \A w \in result.workers :
                /\ w.start \in StageStarts
                /\ NextAccess(w) \subseteq WorkerRange(w.start)
          /\ \A w1, w2 \in result.workers :
                w1 # w2 => NextAccess(w1) \cap NextAccess(w2) = {}
          /\ \A s1, s2 \in StageStarts :
                s1 # s2 => WorkerRange(s1) \cap WorkerRange(s2) = {}
    /\ pc = "wait" => UNION { WorkerRange(s) : s \in StageStarts } = 0..(cfg.n - 1)
    /\ pc \in {"stage", "normalize", "done"} => result.workers = {}

\* two goroutines of several segments each are running at once, one of them
\* past its first segment
ParallelRaceFreeWitness ==
    /\ pc = "wait"
    /\ result.chunkSize >= 2
    /\ Cardinality(result.workers) >= 2
    /\ \E w \in result.workers : w.chunkStart > w.start

(* C26: in every stage of parallelIterativeFFT, for every power-of-two size  *)
(* from the parallel threshold up and every numWorkers >= 2, powers of two   *)
(* or not, the number of goroutines started is at most numWorkers.           *)
FixedWorkerCount ==
    pc \in {"spawn", "wait"} => result.started <= cfg.numWorkers

-----------------------------------------------------------------------------
(* A list replayed as it is and as OptimizePatches returns it *)

InitMeaning ==
    /\ pc = "ops"
    /\ oldData \in Inputs
    /\ patches \in SeqsUpTo(OptimizerOps, MaxOps)
    /\ newData = <<>>
    /\ cfg = NoConfig
    /\ container = NoContainer
    /\ patchBytes = <<>>
    /\ decoded = NoDecoded
    /\ result = NoResult
    /\ opts = NoOpts
    /\ outFile = NoFile
    /\ err = "nil"

\* core.ApplyPatch(oldData, patches) and core.ApplyPatch(oldData, optimized)
ReplayBoth ==
    /\ pc = "optimized"
    /\ decoded' = [plain |-> ApplyPatch(oldData, patches),
                   optimized |-> ApplyPatch(oldData, result.ops)]
    /\ pc' = "compared"
    /\ UNCHANGED <<oldData, newData, cfg, patches, container, patchBytes,
                   result, opts, outFile, err>>

NextMeaning == OptimizeOnce \/ ReplayBoth

SpecMeaning == InitMeaning /\ [][NextMeaning]_vars

(* C27: for every OLD and every list of operations with non-negative         *)
(* lengths, replaying OptimizePatches(ops) gives the same output as          *)
(* replaying ops, in particular when two INSERTs with p.offset + p.length =  *)
(* q.offset and p.length > 0 have been merged.                               *)
OptimizerPreservesMeaning ==
    (pc = "compared" /\ NonNegativeLengths(patches)) =>
        /\ decoded.optimized.status = decoded.plain.status
        /\ decoded.optimized.data = decoded.plain.data

-----------------------------------------------------------------------------
\* the slice expressions oldData[low:high] the replay loop evaluates from
\* patches[i] on, as <<low, high>>: the gap copy, the COPY / MATCH window and
\* the trailing copy
RECURSIVE oldSlices(_, _, _, _)
oldSlices(old, ps, i, cursor) ==
    IF i > Len(ps)
    THEN IF cursor < Len(old) THEN {<<cursor, Len(old)>>} ELSE {}
    ELSE IF ps[i].Offset > Len(old) THEN oldSlices(old, ps, i + 1, cursor)
    ELSE LET p      == ps[i]
             gap    == p.Offset > cursor
             c1     == IF gap THEN p.Offset ELSE cursor
             endPos == Min(c1 + p.Length, Len(old))
             window == p.Op \in {OP_COPY, OP_MATCH} /\ c1 < Len(old) /\ endPos > c1
             c2     == CASE p.Op \in {OP_REPLACE, OP_DELETE} -> c1 + p.Length
                         [] window -> endPos
                         [] OTHER -> c1
         IN (IF gap THEN {<<cursor, p.Offset>>} ELSE {})
                \cup (IF window THEN {<<c1, endPos>>} ELSE {})
                \cup oldSlices(old, ps, i + 1, c2)

(* C28: for every OLD and every list of operations with non-negative         *)
(* lengths, whatever their offsets and kinds, every slice oldData[low:high]  *)
(* ApplyPatch takes has 0 <= low <= high <= |OLD|, the replay never faults   *)
(* and always returns an output.                                             *)
ApplyMemorySafe ==
    (pc = "replayed" /\ NonNegativeLengths(patches)) =>
        /\ \A sl \in oldSlices(oldData, patches, 1, 0) :
              0 <= sl[1] /\ sl[1] <= sl[2] /\ sl[2] <= Len(oldData)
        /\ result.status = "ok"

-----------------------------------------------------------------------------
(* ComputeOffset: the FFT size, the cross-correlation and its argmax *)

\* the value of the bits of a non-negative int
RECURSIVE BitsValue(_)
BitsValue(w) ==
    IF w = {} THEN 0
    ELSE LET b == CHOOSE i \in w : TRUE IN 2 ^ b + BitsValue(w \ {b})

\* the bits of the non-negative integer k
RECURSIVE ValueBits(_, _)
ValueBits(k, b) ==
    IF k = 0 THEN {}
    ELSE (IF k % 2 = 1 THEN {b} ELSE {}) \cup ValueBits(k \div 2, b + 1)

\* an integer as Go's int, two's complement
WordOfInt(k) ==
    IF k >= 0 THEN ValueBits(k, 0)
    ELSE (0..(WordBits - 1)) \ ValueBits(-k - 1, 0)

\* Go's int as an integer
IntOfWord(w) ==
    IF (WordBits - 1) \in w THEN -BitsValue((0..(WordBits - 1)) \ w) - 1
    ELSE BitsValue(w)

\* "n := NextPowerOfTwo(lenA + lenB - 1)"
fftSize(lenA, lenB) == IntOfWord(NextPowerOfTwo(WordOfInt(lenA + lenB - 1)))

\* "a": OLD as reals in a buffer of n zeros
paddedA(old, n) == [i \in 0..(n - 1) |-> IF i < Len(old) THEN old[i + 1] ELSE 0]

\* "b": NEW reversed in a buffer of n zeros
paddedB(new, n) == [i \in 0..(n - 1) |-> IF i < Len(new) THEN new[Len(new) - i] ELSE 0]

RECURSIVE SumOver(_, _)
SumOver(f, S) ==
    IF S = {} THEN 0
    ELSE LET x == CHOOSE y \in S : TRUE IN f[x] + SumOver(f, S \ {x})

\* real(corr[k]) in exact arithmetic: the inverse transform of the product of
\* the two transforms is the circular convolution of a and b
correlation(a, b, n) ==
    [k \in 0..(n - 1) |->
        SumOver([i \in 0..(n - 1) |-> a[i] * b[(k - i + n) % n]], 0..(n - 1))]

\* the indices the argmax loop can end on: a largest correlation value; equal
\* exact values differ by the transforms' rounding, either way
argmax(corr, n) == { k \in 0..(n - 1) : \A i \in 0..(n - 1) : corr[i] <= corr[k] }

\* "offset := maxIdx - lenB + 1" and the wrap-around
shiftOf(maxIdx, lenB, n) ==
    LET offset == maxIdx - lenB + 1
    IN IF offset < -lenB + 1 THEN offset + n ELSE offset

AlignResult(status, n, maxIdx, offset) ==
    [status |-> status, n |-> n, maxIdx |-> maxIdx, offset |-> offset]

\* the outcomes of ComputeOffset(old, new): an index past the end of "a", "b"
\* or "corr" is a run-time panic
ComputeOffset(old, new) ==
    LET lenA == Len(old)
        lenB == Len(new)
        n    == fftSize(lenA, lenB)
    IN IF lenA > n \/ lenB > n THEN {AlignResult("panic", n, 0, 0)}
       ELSE IF n = 0 THEN {AlignResult("panic", n, 0, 0)}
       ELSE { AlignResult("ok", n, k, shiftOf(k, lenB, n)) :
                k \in argmax(correlation(paddedA(old, n), paddedB(new, n), n), n) }

InitAlign ==
    /\ pc = "read"
    /\ oldData \in Inputs
    /\ newData \in Inputs
    /\ cfg = NoConfig
    /\ patches = <<>>
    /\ container = NoContainer
    /\ patchBytes = <<>>
    /\ decoded = NoDecoded
    /\ result = NoResult
    /\ opts = NoOpts
    /\ outFile = NoFile
    /\ err = "nil"

\* offset = int32(core.ComputeOffset(oldData, newData))
Align ==
    /\ pc = "read"
    /\ result' \in ComputeOffset(oldData, newData)
    /\ pc' = "aligned"
    /\ UNCHANGED <<oldData, newData, cfg, patches, container, patchBytes,
                   decoded, opts, outFile, err>>

NextAlign == Align

SpecAlign == InitAlign /\ [][NextAlign]_vars

(* C30: the aligner is total: for every pair of inputs, OLD and NEW both     *)
(* empty included, ComputeOffset uses an FFT size n >= 1, reads the          *)
(* correlation buffer only within [0, n), and returns a shift in             *)
(* [-|NEW| + 1, n - |NEW|].                                                  *)
AlignerTotal ==
    pc = "aligned" =>
        /\ result.n >= 1
        /\ result.status = "ok"
        /\ result.maxIdx \in 0..(result.n - 1)
        /\ -Len(newData) + 1 <= result.offset
        /\ result.offset <= result.n - Len(newData)

====
